---- MODULE Spec2Model ----
(***************************************************************************)
(* A state-machine model of src/HID.cc, the node binding over hidapi.      *)
(*                                                                         *)
(* The JavaScript thread runs one binding method at a time (each           *)
(* NAN_METHOD is one action).  HID::recvAsync runs on a libuv worker       *)
(* thread, so it is split at the blocking hid_read call: RecvAsyncBegin    *)
(* enters hid_read with the handle it loads from hid->_hidHandle and       *)
(* RecvAsyncReturn leaves it.  HID::recvAsyncDone runs on the JavaScript   *)
(* thread and is split at the user callback, inside which JavaScript may   *)
(* call the binding again.                                                 *)
(*                                                                         *)
(* NanThrowError only schedules a JavaScript exception: it does not leave  *)
(* the C++ function, so the statements after it still run.                 *)
(***************************************************************************)
EXTENDS Integers, Sequences, FiniteSets, TLC

\* ------------------------------------------------------------------ bounds
MaxHandles == 1      \* HID objects ever constructed
MaxReads   == 2      \* read requests ever submitted
MaxLen     == 1      \* longest byte sequence a native call moves
MaxReport  == 2      \* longest feature report of the loopback transport
MaxDevices == 2      \* attached devices an enumeration lists

\* ------------------------------------------------------- program constants
BufSize == 1024      \* unsigned char buf[1024] in HID::recvAsync
UCharRange == 256    \* the values of an unsigned char

Handles == 1..MaxHandles
ReadIds == 1..MaxReads
Bytes   == {170, 187}
ArgInts == {170, 443}     \* numbers JavaScript passes in arrays
Min(a, b) == IF a < b THEN a ELSE b
ReadCap == Min(MaxLen, BufSize)

\* A cell of a C buffer that nothing has written yet: no unsigned char.
Uninit == UCharRange

RECURSIVE SeqsUpTo(_, _)
SeqsUpTo(S, n) == IF n = 0 THEN {<<>>}
                  ELSE SeqsUpTo(S, n - 1) \cup [1..n -> S]

\* A buffer of cap cells of which a native call wrote the first
\* Len(written) cells.
Filled(written, cap) ==
  [i \in 1..cap |-> IF i <= Len(written) THEN written[i] ELSE Uninit]

\* ------------------------------------------------------ JavaScript values
Undefined   == [t |-> "undefined"]
Error(m)    == [t |-> "Error", message |-> m]
Buffer(b)   == [t |-> "Buffer", bytes |-> b]
JSArray(e)  == [t |-> "Array", elems |-> e]
Integer(n)  == [t |-> "Integer", value |-> n]
String(s)   == [t |-> "String", value |-> s]

\* The messages the binding throws, by the error kind of the specification.
InvalidArgument == "InvalidArgument"
DeviceNotFound  == "DeviceNotFound"
WriteFailed     == "WriteFailed"
ReadFailed      == "ReadFailed"
ModeFailed      == "ModeFailed"
AlreadyClosed   == "AlreadyClosed"

VARIABLES
  process,     \* "unloaded", "running", "exited", "aborted", "crashed", "fatal"
  hidInit,     \* number of hid_init calls
  hidExit,     \* number of hid_exit calls
  library,     \* hidapi: "uninitialized", "ready", "failed", "finalized"
  objState,    \* per HID object: "none", "live", "orphan", "gone"
  hidHandle,   \* per HID object: _hidHandle, 0 when null
  openedWith,  \* per HID object: the value hid_open gave its constructor
  refs,        \* per HID object: ObjectWrap reference count
  closeCalls,  \* per native device: number of hid_close calls on it
  nonblocking, \* per native device: the mode hid_set_nonblocking left it in
  featureReport, \* per native device: the last feature report it accepted
  reads,       \* per read request: the ReceiveIOCB and where it stands
  lastCall     \* what the last binding call did

vars == <<process, hidInit, hidExit, library, objState, hidHandle,
          openedWith, refs, closeCalls, nonblocking, featureReport, reads,
          lastCall>>

\* A native device is named by the HID object whose constructor opened it.
NoCall == [op |-> "none", h |-> 0, argsOK |-> TRUE, wasClosed |-> FALSE,
           raised |-> {}, native |-> <<>>, ret |-> Undefined, frees |-> 0,
           opened |-> 0, args |-> <<>>, attached |-> <<>>]

\* No feature report: what a device holds before it accepted one.  args is
\* the array JavaScript passed, report the bytes the device accepted.
NoReport == [args |-> <<>>, report |-> <<>>]

NoRead == [st |-> "none", hid |-> 0, cbOK |-> TRUE, arg |-> 0,
           hazard |-> FALSE, len |-> 0, buf |-> <<>>, error |-> "",
           data |-> <<>>, argv |-> <<Undefined, Undefined>>, calls |-> 0,
           unrefs |-> 0, deleted |-> FALSE]

Running == process = "running"

Init ==
  /\ process = "unloaded"
  /\ hidInit = 0
  /\ hidExit = 0
  /\ library = "uninitialized"
  /\ objState = [h \in Handles |-> "none"]
  /\ hidHandle = [h \in Handles |-> 0]
  /\ openedWith = [h \in Handles |-> 0]
  /\ refs = [h \in Handles |-> 0]
  /\ closeCalls = [h \in Handles |-> 0]
  /\ nonblocking = [h \in Handles |-> FALSE]
  /\ featureReport = [h \in Handles |-> NoReport]
  /\ reads = [r \in ReadIds |-> NoRead]
  /\ lastCall = NoCall

\* ------------------------------------------------------ process lifecycle
\* The process ends: its objects and threads are gone, and the state keeps
\* only how it ended and how often the library was set up and torn down.
Halt(how) ==
  /\ process' = how
  /\ objState' = [h \in Handles |-> "none"]
  /\ hidHandle' = [h \in Handles |-> 0]
  /\ openedWith' = [h \in Handles |-> 0]
  /\ refs' = [h \in Handles |-> 0]
  /\ closeCalls' = [h \in Handles |-> 0]
  /\ nonblocking' = [h \in Handles |-> FALSE]
  /\ featureReport' = [h \in Handles |-> NoReport]
  /\ reads' = [r \in ReadIds |-> NoRead]
  /\ lastCall' = NoCall

\* HID::Initialize: hid_init, abort when it fails, else register the exit hook.
Initialize_noAbort ==
  /\ process = "unloaded"
  /\ hidInit' = hidInit + 1
  /\ \E failed \in BOOLEAN :
       /\ library' = IF failed THEN "failed" ELSE "ready"
       /\ process' = "running"
  /\ UNCHANGED <<hidExit, objState, hidHandle, openedWith, refs, closeCalls,
                 nonblocking, featureReport, reads, lastCall>>

Initialize ==
  /\ process = "unloaded"
  /\ hidInit' = hidInit + 1
  /\ \E failed \in BOOLEAN :
       /\ library' = IF failed THEN "failed" ELSE "ready"
       /\ process' = IF failed THEN "aborted" ELSE "running"
  /\ UNCHANGED <<hidExit, objState, hidHandle, openedWith, refs, closeCalls,
                 nonblocking, featureReport, reads, lastCall>>

\* deinitialize, the node::AtExit hook: hid_exit, abort when it fails.
deinitialize ==
  /\ Running
  /\ hidExit' = hidExit + 1
  /\ \E failed \in BOOLEAN :
       /\ library' = IF failed THEN "failed" ELSE "finalized"
       /\ Halt(IF failed THEN "aborted" ELSE "exited")
  /\ UNCHANGED hidInit

\* ------------------------------------------------------------ HID::close
\* A read that is inside hid_read on the device being released now runs on
\* freed memory.
HazardOn(d) ==
  [r \in ReadIds |->
     IF reads[r].st = "running" /\ reads[r].arg = d
     THEN [reads[r] EXCEPT !.hazard = TRUE] ELSE reads[r]]

close_unguarded(h) ==
  /\ closeCalls' = [closeCalls EXCEPT ![h] = @ + 1]
  /\ hidHandle' = [hidHandle EXCEPT ![h] = 0]
  /\ nonblocking' = [nonblocking EXCEPT ![h] = FALSE]
  /\ reads' = HazardOn(h)

\* HID::close: hid_close and null the handle, when the handle is not null.
close(h) ==
  IF hidHandle[h] # 0
  THEN /\ closeCalls' = [closeCalls EXCEPT ![hidHandle[h]] = @ + 1]
       /\ nonblocking' = [nonblocking EXCEPT ![hidHandle[h]] = FALSE]
       /\ reads' = HazardOn(hidHandle[h])
       /\ hidHandle' = [hidHandle EXCEPT ![h] = 0]
  ELSE UNCHANGED <<closeCalls, nonblocking, hidHandle, reads>>

\* NAN_METHOD(HID::close)
NAN_close(h) ==
  /\ Running /\ objState[h] = "live"
  /\ close(h)
  /\ lastCall' = [NoCall EXCEPT !.op = "close", !.h = h,
                                !.wasClosed = (hidHandle[h] = 0)]
  /\ UNCHANGED <<process, featureReport, hidInit, hidExit, library, objState,
                 openedWith, refs>>

\* HID::~HID, run by the garbage collector once nothing references the object.
Destroy(h) ==
  /\ Running /\ objState[h] \in {"live", "orphan"} /\ refs[h] = 0
  /\ close(h)
  /\ objState' = [objState EXCEPT ![h] = "gone"]
  /\ UNCHANGED <<process, featureReport, hidInit, hidExit, library,
                 openedWith, refs, lastCall>>

\* ------------------------------------------------------------- HID::HID
\* One native call, as the binding made it: the function, the handle it was
\* given, the bytes it was given and what it returned.
NativeCall(fn, dev, data, ret) ==
  [fn |-> fn, dev |-> dev, data |-> data, ret |-> ret]

FreeSlots == {h \in Handles : objState[h] = "none" /\ openedWith[h] = 0}
NextSlot  == CHOOSE h \in FreeSlots : \A g \in FreeSlots : h <= g

\* HID::HID(vendorId, productId, serialNumber) and HID::HID(path): the
\* constructor throws JSException when hid_open / hid_open_path returned null;
\* otherwise the object holds the device.  TRUE when the object is constructed.
HID_ctor_unchecked(dev) == TRUE

HID_ctor(dev) == dev # 0

\* NAN_METHOD(HID::New).  isConstruct: args.IsConstructCall(); nargs:
\* args.Length(); dev: what the native open returns (0 for null).  A call
\* that is not a construct call has the global object as receiver, which
\* has no internal field: ObjectWrap::Wrap ends the process on it.  An
\* object built by a call that also raised is never handed to JavaScript.
New(isConstruct, nargs, dev) ==
  LET argErrs == IF ~isConstruct \/ nargs < 1 THEN {InvalidArgument} ELSE {}
      fn      == IF nargs = 1 THEN "hid_open_path" ELSE "hid_open"
      built   == HID_ctor(dev)
      errs    == argErrs \cup (IF built THEN {} ELSE {DeviceNotFound})
  IN
  /\ Running
  /\ dev # 0 => (FreeSlots # {} /\ dev = NextSlot)
  /\ built => FreeSlots # {}
  /\ IF built /\ ~isConstruct
     THEN Halt("aborted")
     ELSE /\ IF built
             THEN /\ hidHandle' = [hidHandle EXCEPT ![NextSlot] = dev]
                  /\ openedWith' = [openedWith EXCEPT ![NextSlot] = dev]
                  /\ objState' = [objState EXCEPT ![NextSlot] =
                                    IF errs = {} THEN "live" ELSE "orphan"]
             ELSE UNCHANGED <<objState, hidHandle, openedWith>>
          /\ lastCall' = [NoCall EXCEPT
                            !.op = "New",
                            !.h = IF built /\ errs = {} THEN NextSlot ELSE 0,
                            !.argsOK = (argErrs = {}),
                            !.raised = errs,
                            !.native = <<NativeCall(fn, 0, <<>>, dev)>>,
                            !.opened = dev]
          /\ UNCHANGED <<process, featureReport, refs, closeCalls, nonblocking,
                         reads>>
  /\ UNCHANGED <<hidInit, hidExit, library>>

\* --------------------------------------------------- asynchronous read
FreeReads == {r \in ReadIds : reads[r].st = "none"}
FreeRead  == CHOOSE r \in FreeReads : \A q \in FreeReads : r <= q
InFlight(r) == reads[r].st \in {"queued", "running", "returned", "calling"}

\* The errors NAN_METHOD(HID::read) raises: only the argument check.
readErrors_closedCheck(h, nargs, isFunc) ==
  (IF nargs # 1 \/ ~isFunc THEN {InvalidArgument} ELSE {})
    \cup (IF hidHandle[h] = 0 THEN {AlreadyClosed} ELSE {})

readErrors(h, nargs, isFunc) ==
  IF nargs # 1 \/ ~isFunc THEN {InvalidArgument} ELSE {}

\* hid->Ref() in NAN_METHOD(HID::read) and iocb->_hid->Unref() in
\* HID::recvAsyncDone: the reference count of the object after the call.
Ref(h) == [refs EXCEPT ![h] = @ + 1]

Unref_skipped(h) == refs

Unref(h) == [refs EXCEPT ![h] = @ - 1]

\* NAN_METHOD(HID::read).  nargs: args.Length(); isFunc: args[0]->IsFunction()
\* (args[0] is undefined when there is no argument).  The argument error is
\* scheduled and the method goes on: Ref, new ReceiveIOCB, uv_queue_work.
read(h, nargs, isFunc) ==
  LET errs == readErrors(h, nargs, isFunc) IN
  /\ Running /\ objState[h] = "live"
  /\ nargs = 0 => ~isFunc
  /\ FreeReads # {}
  /\ refs' = Ref(h)
  /\ reads' = [reads EXCEPT ![FreeRead] =
                 [NoRead EXCEPT !.st = "queued", !.hid = h, !.cbOK = isFunc]]
  /\ lastCall' = [NoCall EXCEPT !.op = "read", !.h = h,
                                !.argsOK = (nargs = 1 /\ isFunc),
                                !.wasClosed = (hidHandle[h] = 0),
                                !.raised = errs]
  /\ UNCHANGED <<process, featureReport, hidInit, hidExit, library, objState,
                 hidHandle, openedWith, closeCalls, nonblocking>>

\* HID::recvAsync up to its call of hid_read: a worker thread takes the
\* request and enters hid_read with the handle it loads from the object.
\* (The libuv pool has more threads than the model has requests.)
RecvAsyncBegin(r) ==
  /\ Running /\ reads[r].st = "queued"
  /\ reads' = [reads EXCEPT ![r].st = "running",
                            ![r].arg = hidHandle[reads[r].hid],
                            ![r].hazard = (hidHandle[reads[r].hid] = 0)]
  /\ UNCHANGED <<process, featureReport, hidInit, hidExit, library, objState,
                 hidHandle, openedWith, refs, closeCalls, nonblocking, lastCall>>

\* The body of HID::recvAsync after hid_read returned len with buf filled:
\* the error, or the first len bytes of buf.
recvAsync_errorOnEmpty(len, buf) ==
  IF len <= 0
  THEN [error |-> "could not read from HID device", data |-> <<>>]
  ELSE [error |-> "", data |-> SubSeq(buf, 1, len)]

recvAsync_wholeBuffer(len, buf) ==
  IF len < 0
  THEN [error |-> "could not read from HID device", data |-> <<>>]
  ELSE [error |-> "", data |-> buf]

recvAsync(len, buf) ==
  IF len < 0
  THEN [error |-> "could not read from HID device", data |-> <<>>]
  ELSE [error |-> "", data |-> SubSeq(buf, 1, len)]

\* hid_read returns and HID::recvAsync finishes.  hid_read returns -1, or
\* the number of bytes it wrote at the start of buf.  On a null or released
\* handle hid_read is undefined: it may end the process, or return.
RecvAsyncReturn(r, len, bytes, crash) ==
  LET buf == Filled(bytes, ReadCap)
      res == recvAsync(len, buf)
  IN
  /\ Running /\ reads[r].st = "running"
  /\ crash => reads[r].hazard
  /\ Len(bytes) = (IF len < 0 THEN 0 ELSE len)
  /\ IF crash
     THEN Halt("crashed")
     ELSE /\ reads' = [reads EXCEPT ![r].st = "returned", ![r].len = len,
                                    ![r].buf = buf, ![r].error = res.error,
                                    ![r].data = res.data, ![r].arg = 0,
                                    ![r].hazard = FALSE]
          /\ UNCHANGED <<process, featureReport, objState, hidHandle,
                         openedWith, refs, closeCalls, nonblocking, lastCall>>
  /\ UNCHANGED <<hidInit, hidExit, library>>

\* HID::readResultsToJSCallbackArguments: argv[0] is set when the request
\* holds an error, else argv[1] becomes a Buffer with a copy of the data.
readResultsToJSCallbackArguments(iocb, argv) ==
  IF iocb.error # ""
  THEN <<Error(iocb.error), argv[2]>>
  ELSE <<argv[1], Buffer(iocb.data)>>

\* How often HID::recvAsyncDone invokes the callback of a request: Call is
\* executed once, and invokes the callback when it is a function.
CallbackCalls_never(iocb) == 0

CallbackCalls(iocb) == IF iocb.cbOK THEN 1 ELSE 0

\* HID::recvAsyncDone up to the entry into the callback: build argv, Unref,
\* Call.  Calling a value that is no function is undefined: it may end the
\* process, or fail with an exception that TryCatch catches.
RecvAsyncDoneCall(r, crash) ==
  LET iocb == reads[r]
      argv == readResultsToJSCallbackArguments(iocb, <<Undefined, Undefined>>)
  IN
  /\ Running /\ iocb.st = "returned"
  /\ \A q \in ReadIds : reads[q].st # "calling"
  /\ crash => ~iocb.cbOK
  /\ IF crash
     THEN Halt("crashed")
     ELSE /\ refs' = Unref(iocb.hid)
          /\ reads' = [reads EXCEPT ![r].st = "calling", ![r].argv = argv,
                                    ![r].unrefs = @ + 1,
                                    ![r].calls = @ + CallbackCalls(iocb)]
          /\ UNCHANGED <<process, featureReport, objState, hidHandle,
                         openedWith, closeCalls, nonblocking, lastCall>>
  /\ UNCHANGED <<hidInit, hidExit, library>>

\* The callback returns into HID::recvAsyncDone: FatalException when it
\* threw (node ends the process unless the program handles the exception),
\* then delete the callback and the request.
RecvAsyncDoneReturn(r, threw, fatal) ==
  /\ Running /\ reads[r].st = "calling"
  /\ fatal => threw
  /\ ~reads[r].cbOK => threw
  /\ IF fatal
     THEN Halt("fatal")
     ELSE /\ reads' = [reads EXCEPT ![r] = [NoRead EXCEPT
                          !.st = "done", !.hid = reads[r].hid,
                          !.cbOK = reads[r].cbOK, !.calls = reads[r].calls,
                          !.unrefs = reads[r].unrefs, !.deleted = TRUE]]
          /\ UNCHANGED <<process, featureReport, objState, hidHandle,
                         openedWith, refs, closeCalls, nonblocking, lastCall>>
  /\ UNCHANGED <<hidInit, hidExit, library>>

\* ------------------------------------------------- synchronous methods
\* (unsigned char) of an Int32Value
ToUChar(v) == v % UCharRange

\* The vector<unsigned char> the methods build from the array argument.
Message(ints) == [i \in 1..Len(ints) |-> ToUChar(ints[i])]

\* The arguments of write and sendFeatureReport.  isArray: args[0] is an
\* Array; ints: its elements as numbers; bad: the index of its first element
\* that is no number, 0 when all are.  Local<Array>::Cast of a value that is
\* no Array is undefined: the loop may see any elements.
ArrayArgsOK(nargs, isArray, ints, bad) ==
  /\ nargs = 0 => ~isArray
  /\ bad \in 0..Len(ints)

\* HID::setNonBlocking: hid_set_nonblocking on the handle, whatever it is.
HID_setNonBlocking(h, v, res) ==
  [native |-> <<NativeCall("hid_set_nonblocking", hidHandle[h], <<v>>, res)>>,
   raised |-> IF res < 0 THEN {ModeFailed} ELSE {}]

\* NAN_METHOD(HID::setNonBlocking).  v: args[0]->Int32Value(), 0 for a
\* missing argument; res: what hid_set_nonblocking returns.  On a null
\* handle the native call is undefined: it may end the process, or return.
setNonBlocking(h, nargs, v, res, crash) ==
  LET argErrs == IF nargs # 1 THEN {InvalidArgument} ELSE {}
      call    == HID_setNonBlocking(h, v, res)
  IN
  /\ Running /\ objState[h] = "live"
  /\ nargs = 0 => v = 0
  /\ crash => hidHandle[h] = 0
  /\ IF crash
     THEN Halt("crashed")
     ELSE /\ nonblocking' =
               IF hidHandle[h] # 0 /\ res >= 0 /\ call.native # <<>>
               THEN [nonblocking EXCEPT ![hidHandle[h]] = (v # 0)]
               ELSE nonblocking
          /\ lastCall' = [NoCall EXCEPT
                            !.op = "setNonBlocking", !.h = h,
                            !.argsOK = (argErrs = {}),
                            !.wasClosed = (hidHandle[h] = 0),
                            !.raised = argErrs \cup call.raised,
                            !.native = call.native]
          /\ UNCHANGED <<process, featureReport, objState, hidHandle,
                         openedWith, refs, closeCalls, reads>>
  /\ UNCHANGED <<hidInit, hidExit, library>>

\* HID::write: copy the message into a new buffer, hid_write it with the
\* handle, whatever it is, delete the buffer, throw when the result is
\* negative.
HID_write(h, message, res) ==
  [native |-> <<NativeCall("hid_write", hidHandle[h], message, res)>>,
   raised |-> IF res < 0 THEN {WriteFailed} ELSE {},
   frees  |-> 1]

\* NAN_METHOD(HID::write).  res: what hid_write returns.
write(h, nargs, isArray, ints, bad, res, crash) ==
  LET argErrs == IF nargs # 1 THEN {InvalidArgument} ELSE {}
      call    == IF bad # 0
                 THEN [native |-> <<>>, raised |-> {InvalidArgument}, frees |-> 0]
                 ELSE HID_write(h, Message(ints), res)
  IN
  /\ Running /\ objState[h] = "live"
  /\ ArrayArgsOK(nargs, isArray, ints, bad)
  /\ res \in -1..Len(ints)
  /\ crash => (~isArray \/ (bad = 0 /\ hidHandle[h] = 0))
  /\ bad # 0 => res = -1
  /\ IF crash
     THEN Halt("crashed")
     ELSE /\ lastCall' = [NoCall EXCEPT
                            !.op = "write", !.h = h,
                            !.argsOK = (argErrs = {} /\ isArray /\ bad = 0),
                            !.wasClosed = (hidHandle[h] = 0),
                            !.raised = argErrs \cup call.raised,
                            !.native = call.native,
                            !.frees = call.frees,
                            !.args = ints]
          /\ UNCHANGED <<process, featureReport, objState, hidHandle,
                         openedWith, refs, closeCalls, nonblocking, reads>>
  /\ UNCHANGED <<hidInit, hidExit, library>>

\* The Array getFeatureReport returns: the first returnedLength bytes of buf.
ReportArray_skipId(buf, returnedLength) == SubSeq(buf, 2, returnedLength)

ReportArray(buf, returnedLength) == SubSeq(buf, 1, returnedLength)

\* NAN_METHOD(HID::getFeatureReport).  id: args[0]->ToUint32(); size:
\* args[1]->ToUint32(), 0 for a missing argument; ret: what
\* hid_get_feature_report returns; bytes: what it wrote at the start of buf.
\* buf[0] = reportId writes past a buffer of size 0, and the failure path
\* deletes buf twice: both are undefined and may end the process.
getFeatureReport(h, nargs, id, size, ret, bytes, crash) ==
  LET argErrs  == IF nargs # 2 \/ size = 0 THEN {InvalidArgument} ELSE {}
      reportId == ToUChar(id)
      sent     == Filled(<<reportId>>, size)
      buf      == Filled(bytes, size)
      failed   == ret = -1
      retval   == IF failed THEN <<>> ELSE ReportArray(buf, ret)
  IN
  /\ Running /\ objState[h] = "live"
  /\ nargs < 2 => size = 0
  /\ nargs < 1 => id = 0
  /\ ret \in -1..size
  /\ Len(bytes) = (IF failed THEN 0 ELSE ret)
  /\ crash => (size = 0 \/ failed \/ hidHandle[h] = 0)
  /\ IF crash
     THEN Halt("crashed")
     ELSE /\ lastCall' = [NoCall EXCEPT
                            !.op = "getFeatureReport", !.h = h,
                            !.argsOK = (argErrs = {}),
                            !.wasClosed = (hidHandle[h] = 0),
                            !.raised = argErrs \cup
                                       (IF failed THEN {ReadFailed} ELSE {}),
                            !.native = <<NativeCall("hid_get_feature_report",
                                                    hidHandle[h], sent, ret)>>,
                            !.ret = JSArray(retval),
                            !.frees = IF failed THEN 2 ELSE 1]
          /\ UNCHANGED <<process, featureReport, objState, hidHandle,
                         openedWith, refs, closeCalls, nonblocking, reads>>
  /\ UNCHANGED <<hidInit, hidExit, library>>

\* What the devices hold after hid_send_feature_report(dev, message)
\* returned res: a device that accepted a whole report holds it.
Accepted(dev, ints, message, res) ==
  IF dev # 0 /\ res >= 1 /\ res = Len(message)
  THEN [featureReport EXCEPT ![dev] = [args |-> ints, report |-> message]]
  ELSE featureReport

\* NAN_METHOD(HID::sendFeatureReport).  res: what hid_send_feature_report
\* returns.  The JSException for an element that is no number is thrown
\* outside any try block: it leaves the method and ends the process.
sendFeatureReport(h, nargs, isArray, ints, bad, res, crash) ==
  LET argErrs == IF nargs # 1 THEN {InvalidArgument} ELSE {}
      message == Message(ints)
  IN
  /\ Running /\ objState[h] = "live"
  /\ ArrayArgsOK(nargs, isArray, ints, bad)
  /\ res \in -1..Len(ints)
  /\ crash => (~isArray \/ (bad = 0 /\ hidHandle[h] = 0))
  /\ bad # 0 => res = -1
  /\ IF crash
     THEN Halt("crashed")
     ELSE IF bad # 0
     THEN Halt("aborted")
     ELSE /\ lastCall' = [NoCall EXCEPT
                            !.op = "sendFeatureReport", !.h = h,
                            !.argsOK = (argErrs = {} /\ isArray),
                            !.wasClosed = (hidHandle[h] = 0),
                            !.raised = argErrs \cup
                                       (IF res = -1 THEN {WriteFailed} ELSE {}),
                            !.native = <<NativeCall("hid_send_feature_report",
                                                    hidHandle[h], message, res)>>,
                            !.ret = Integer(res),
                            !.frees = 1,
                            !.args = ints]
          /\ featureReport' = Accepted(hidHandle[h], ints, message, res)
          /\ UNCHANGED <<process, objState, hidHandle, openedWith, refs,
                         closeCalls, nonblocking, reads>>
  /\ UNCHANGED <<hidInit, hidExit, library>>

\* -------------------------------------------------------- HID::devices
\* A hid_device_info record.  Strings are sequences of character codes, and
\* a pointer is the set of what it points to: {} when null.
DeviceInfo(vendor, product, path, serial) ==
  [vendor_id |-> vendor, product_id |-> product, path |-> path,
   serial_number |-> serial, manufacturer_string |-> {},
   product_string |-> {<<72, 73, 68>>}, release_number |-> 256,
   interface_number |-> -1, usage_page |-> 1, usage |-> 6]

DeviceInfos ==
  { DeviceInfo(1, 1, {<<47, 97>>}, {}),
    DeviceInfo(1, 2, {<<47, 98>>}, {<<83, 955>>}),
    DeviceInfo(2, 1, {}, {<<83, 50>>}) }

\* numbers JavaScript passes as vendor and product id
FilterInts == {0, 1, 2, 65537}

Deref(ptr) == CHOOSE x \in ptr : TRUE

\* narrow: every wide character the stream can narrow, '?' for the others.
Narrowable == 0..127
narrow(wide) ==
  [i \in 1..Len(wide) |-> IF wide[i] \in Narrowable THEN wide[i] ELSE 63]

\* The vendor and product id NAN_METHOD(HID::devices) passes to
\* hid_enumerate: its two arguments, or 0 and 0.
EnumerateArgs(nargs, v, p) == IF nargs = 2 THEN <<v, p>> ELSE <<0, 0>>

\* hid_enumerate(unsigned short vendor_id, unsigned short product_id): the
\* attached devices that match, in the order of the platform; 0 matches any.
hid_enumerate(attached, vendorId, productId) ==
  LET vid == vendorId % 65536
      pid == productId % 65536
      Match(d) == /\ (vid = 0 \/ d.vendor_id = vid)
                  /\ (pid = 0 \/ d.product_id = pid)
  IN SelectSeq(attached, Match)

\* The object NAN_METHOD(HID::devices) builds for one record: a property
\* for every number, and for every string whose pointer is not null.
deviceInfo(dev) ==
  LET names == {"vendorId", "productId", "release", "interface",
                "usagePage", "usage"}
               \cup (IF dev.path # {} THEN {"path"} ELSE {})
               \cup (IF dev.serial_number # {} THEN {"serialNumber"} ELSE {})
               \cup (IF dev.manufacturer_string # {}
                     THEN {"manufacturer"} ELSE {})
               \cup (IF dev.product_string # {} THEN {"product"} ELSE {})
  IN [k \in names |->
        CASE k = "vendorId"     -> Integer(dev.vendor_id)
          [] k = "productId"    -> Integer(dev.product_id)
          [] k = "path"         -> String(Deref(dev.path))
          [] k = "serialNumber" -> String(narrow(Deref(dev.serial_number)))
          [] k = "manufacturer" ->
               String(narrow(Deref(dev.manufacturer_string)))
          [] k = "product"      -> String(narrow(Deref(dev.product_string)))
          [] k = "release"      -> Integer(dev.release_number)
          [] k = "interface"    -> Integer(dev.interface_number)
          [] k = "usagePage"    -> Integer(dev.usage_page)
          [] k = "usage"        -> Integer(dev.usage)]

\* The loop of NAN_METHOD(HID::devices) over the list hid_enumerate gave:
\* retval[count++] is the object of the next record.
Descriptors_reversed(devs) ==
  [i \in 1..Len(devs) |-> deviceInfo(devs[Len(devs) + 1 - i])]

Descriptors(devs) == [i \in 1..Len(devs) |-> deviceInfo(devs[i])]

\* What NAN_METHOD(HID::devices) raises, asks of hidapi and returns.
DevicesResult(nargs, v, p, attached) ==
  LET filter == EnumerateArgs(nargs, v, p)
      devs   == hid_enumerate(attached, filter[1], filter[2])
  IN [raised |-> IF nargs \in {0, 2} THEN {} ELSE {InvalidArgument},
      native |-> <<NativeCall("hid_enumerate", 0, filter, devs)>>,
      ret    |-> JSArray(Descriptors(devs))]

\* NAN_METHOD(HID::devices).  nargs: args.Length(); v, p:
\* args[0]->Int32Value() and args[1]->Int32Value(), read only when there are
\* two arguments; attached: the devices the platform has at this moment.
devices(nargs, v, p, attached) ==
  LET res == DevicesResult(nargs, v, p, attached) IN
  /\ Running
  /\ nargs # 2 => (v = 0 /\ p = 0)
  /\ lastCall' = [NoCall EXCEPT !.op = "devices",
                                !.argsOK = (res.raised = {}),
                                !.raised = res.raised,
                                !.native = res.native,
                                !.ret = res.ret,
                                !.attached = attached]
  /\ UNCHANGED <<process, featureReport, hidInit, hidExit, library, objState,
                 hidHandle, openedWith, refs, closeCalls, nonblocking, reads>>

\* ------------------------------------------------ a loopback transport
\* A device that accepts every feature report that has a report id, and
\* answers a request for the report id of the report it holds with the
\* first bytes of that report.
hid_send_feature_report_loopback(dev, message) ==
  IF dev # 0 /\ Len(message) >= 1 THEN Len(message) ELSE -1

hid_get_feature_report_loopback(dev, reportId, size) ==
  LET held == IF dev = 0 THEN <<>> ELSE featureReport[dev].report
      n    == Min(size, Len(held))
  IN IF size >= 1 /\ held # <<>> /\ held[1] = reportId
     THEN [ret |-> n, bytes |-> SubSeq(held, 1, n)]
     ELSE [ret |-> -1, bytes |-> <<>>]

\* ----------------------------------------------------------- the program
Lifecycle ==
  \/ Initialize
  \/ deinitialize
  \/ \E c \in BOOLEAN, n \in 0..3, d \in 0..MaxHandles : New(c, n, d)
  \/ \E h \in Handles : NAN_close(h)
  \/ \E h \in Handles : Destroy(h)

Pipeline ==
  \/ \E r \in ReadIds : RecvAsyncBegin(r)
  \/ \E r \in ReadIds, len \in -1..ReadCap, bytes \in SeqsUpTo(Bytes, ReadCap),
        crash \in BOOLEAN : RecvAsyncReturn(r, len, bytes, crash)
  \/ \E r \in ReadIds, crash \in BOOLEAN : RecvAsyncDoneCall(r, crash)
  \/ \E r \in ReadIds, threw \in BOOLEAN, fatal \in BOOLEAN :
        RecvAsyncDoneReturn(r, threw, fatal)

Reads ==
  \E h \in Handles, n \in 0..2, f \in BOOLEAN : read(h, n, f)

\* JavaScript that keeps to one outstanding read at a time.
SerialReads ==
  \E h \in Handles, n \in 0..2, f \in BOOLEAN :
     /\ \A r \in ReadIds : ~InFlight(r)
     /\ read(h, n, f)

SyncCalls ==
  \/ \E h \in Handles, n \in 0..2, v \in 0..1, res \in -1..0, crash \in BOOLEAN :
        setNonBlocking(h, n, v, res, crash)
  \/ \E h \in Handles, n \in 0..2, a \in BOOLEAN,
        ints \in SeqsUpTo(ArgInts, MaxLen), crash \in BOOLEAN :
        \E bad \in 0..Len(ints), res \in -1..Len(ints) :
           write(h, n, a, ints, bad, res, crash)
  \/ \E h \in Handles, n \in 0..3, id \in ArgInts \cup {0}, size \in 0..MaxLen,
        crash \in BOOLEAN :
        \E ret \in -1..size :
           \E bytes \in SeqsUpTo(Bytes, IF ret < 0 THEN 0 ELSE ret) :
              getFeatureReport(h, n, id, size, ret, bytes, crash)
  \/ \E h \in Handles, n \in 0..2, a \in BOOLEAN,
        ints \in SeqsUpTo(ArgInts, MaxLen), crash \in BOOLEAN :
        \E bad \in 0..Len(ints), res \in -1..Len(ints) :
           sendFeatureReport(h, n, a, ints, bad, res, crash)

DeviceCalls ==
  \E n \in 0..3, attached \in SeqsUpTo(DeviceInfos, MaxDevices) :
     \E v \in (IF n = 2 THEN FilterInts ELSE {0}),
        p \in (IF n = 2 THEN FilterInts ELSE {0}) :
        devices(n, v, p, attached)

\* Feature reports passed as documented, over the loopback transport.
LoopbackCalls ==
  \/ \E h \in Handles, ints \in SeqsUpTo(Bytes, MaxReport), crash \in BOOLEAN :
        sendFeatureReport(h, 1, TRUE, ints, 0,
           hid_send_feature_report_loopback(hidHandle[h], Message(ints)),
           crash)
  \/ \E h \in Handles, id \in Bytes, size \in 0..MaxReport, crash \in BOOLEAN :
        LET answer == hid_get_feature_report_loopback(hidHandle[h],
                                                      ToUChar(id), size)
        IN getFeatureReport(h, 2, id, size, answer.ret, answer.bytes, crash)

\* The whole program, under any JavaScript.
Next == Lifecycle \/ Reads \/ Pipeline \/ SyncCalls \/ DeviceCalls
Spec == Init /\ [][Next]_vars

\* JavaScript that makes only the synchronous calls.
NextSync == Lifecycle \/ SyncCalls
SpecSync == Init /\ [][NextSync]_vars

\* JavaScript that only opens, reads and closes.
NextRead == Lifecycle \/ Reads \/ Pipeline
SpecRead == Init /\ [][NextRead]_vars

\* JavaScript that only opens, reads and closes, one read at a time.
NextSerial == Lifecycle \/ SerialReads \/ Pipeline
SpecSerial == Init /\ [][NextSerial]_vars

\* JavaScript that only enumerates.
NextDevices == Initialize \/ deinitialize \/ DeviceCalls
SpecDevices == Init /\ [][NextDevices]_vars

\* JavaScript that opens, closes and passes feature reports, on devices
\* that loop them back.
NextLoopback == Lifecycle \/ LoopbackCalls
SpecLoopback == Init /\ [][NextLoopback]_vars

\* The event loop runs every completed request's after-work callback, and a
\* JavaScript callback returns.  (hid_read itself may block for ever.)
FairSpecRead ==
  /\ SpecRead
  /\ \A r \in ReadIds :
       /\ WF_vars(RecvAsyncDoneCall(r, FALSE))
       /\ WF_vars(\E threw \in BOOLEAN, fatal \in BOOLEAN :
                     RecvAsyncDoneReturn(r, threw, fatal))

\* ================================================================ claims
HandleOps == {"write", "read", "setNonBlocking", "getFeatureReport",
              "sendFeatureReport"}
SyncOps   == {"write", "setNonBlocking", "getFeatureReport",
              "sendFeatureReport"}

\* C1: an operation invoked on a handle after close() fails with
\* AlreadyClosed and makes no call into hidapi.
C1_ClosedHandleFailsFast ==
  (lastCall.op \in HandleOps /\ lastCall.wasClosed)
    => (AlreadyClosed \in lastCall.raised /\ lastCall.native = <<>>)

\* C2: close is idempotent: no close() call raises, and hid_close is called
\* exactly once on a device whose handle was closed or torn down, never on a
\* device a handle still holds, and never twice.
C2_CloseOnce ==
  /\ lastCall.op = "close" => lastCall.raised = {}
  /\ \A h \in Handles :
       /\ closeCalls[h] <= 1
       /\ hidHandle[h] # 0 => closeCalls[hidHandle[h]] = 0
       /\ (openedWith[h] # 0 /\ hidHandle[h] = 0) => closeCalls[openedWith[h]] = 1
       /\ objState[h] = "gone" => hidHandle[h] = 0

\* C2 witness: close() was called on a handle already closed, the object was
\* then torn down, and the device was released once.
C2_Witness ==
  \E h \in Handles :
     /\ lastCall.op = "close" /\ lastCall.h = h /\ lastCall.wasClosed
     /\ objState[h] = "gone"
     /\ closeCalls[openedWith[h]] = 1

\* C3: a read submitted with a callback function has its callback invoked at
\* most once, exactly once when its request is discarded, and, once hid_read
\* has returned, eventually once unless the process has ended.
C3_CallbackExactlyOnce ==
  \A r \in ReadIds :
     /\ [](reads[r].calls <= 1)
     /\ []((reads[r].st = "done" /\ reads[r].cbOK) => reads[r].calls = 1)
     /\ (reads[r].st = "returned" /\ reads[r].cbOK)
          ~> (reads[r].calls = 1 \/ ~Running)

\* C3 witness: two reads with callbacks completed, each callback invoked once.
C3_Witness ==
  /\ Running
  /\ \A r \in ReadIds :
       reads[r].st = "done" /\ reads[r].cbOK /\ reads[r].calls = 1

\* C4: the device of a handle is not released while a read on that handle is
\* submitted and not yet completed by the worker.
C4_NoReleaseInFlight ==
  [][\A r \in ReadIds :
       (reads[r].st \in {"queued", "running"} /\ hidHandle[reads[r].hid] # 0)
         => closeCalls'[hidHandle[reads[r].hid]] = closeCalls[hidHandle[reads[r].hid]]
    ]_vars

\* C5: two reads never run hid_read at the same time on the same native
\* handle.
C5_NoConcurrentReads ==
  \A r1 \in ReadIds, r2 \in ReadIds :
     (r1 # r2 /\ reads[r1].st = "running" /\ reads[r2].st = "running")
       => (reads[r1].arg = 0 \/ reads[r1].arg # reads[r2].arg)

\* C6: the callback gets (error, data) with exactly one slot set: for
\* len >= 0 no error and the first len bytes of the read buffer, len at most
\* the buffer size; for len < 0 no data and the read error.
C6_CallbackArguments ==
  \A r \in ReadIds :
     reads[r].st = "calling" =>
       IF reads[r].len >= 0
       THEN /\ reads[r].len <= BufSize
            /\ reads[r].argv[1] = Undefined
            /\ reads[r].argv[2] = Buffer(SubSeq(reads[r].buf, 1, reads[r].len))
       ELSE /\ reads[r].argv[1] = Error("could not read from HID device")
            /\ reads[r].argv[2] = Undefined

\* C6 witness: a callback is running with the bytes hid_read put in the
\* buffer.
C6_Witness ==
  \E r \in ReadIds :
     /\ reads[r].st = "calling" /\ reads[r].calls = 1
     /\ reads[r].len = ReadCap
     /\ reads[r].argv[2] = Buffer([i \in 1..ReadCap |-> 187])

\* C7: a synchronous method called with a wrong argument count or shape
\* fails with InvalidArgument and makes no call into hidapi.
C7_ArgumentsCheckedFirst ==
  (lastCall.op \in SyncOps /\ ~lastCall.argsOK)
    => (InvalidArgument \in lastCall.raised /\ lastCall.native = <<>>)

\* C8, as claimed: no call of read raises.
C8_ReadNeverRaises ==
  lastCall.op = "read" => lastCall.raised = {}

\* C8, amended: read raises exactly the argument error, and only when its
\* arguments are not one function; a negative result of hid_read reaches the
\* callback in its error slot.
C8_ReadRaisesOnlyArgumentError ==
  /\ lastCall.op = "read" =>
       lastCall.raised = (IF lastCall.argsOK THEN {} ELSE {InvalidArgument})
  /\ \A r \in ReadIds :
       (reads[r].st = "calling" /\ reads[r].len < 0)
         => reads[r].argv[1] = Error("could not read from HID device")

\* C8 witness: read was called with one function on a closed handle and did
\* not raise.
C8_Witness ==
  /\ lastCall.op = "read" /\ lastCall.argsOK /\ lastCall.wasClosed
  /\ lastCall.raised = {}

\* C9: a constructor call whose native open returned null raises
\* DeviceNotFound and yields no handle; every HID object was built with the
\* device its open returned, holds that device or none, and shares it with
\* no other object.
C9_OpenFailsOrHoldsDevice ==
  /\ (lastCall.op = "New" /\ lastCall.opened = 0)
       => (DeviceNotFound \in lastCall.raised /\ lastCall.h = 0)
  /\ \A h \in Handles :
       /\ objState[h] # "none" => openedWith[h] # 0
       /\ hidHandle[h] \in {0, openedWith[h]}
       /\ \A g \in Handles :
            (g # h /\ hidHandle[h] # 0) => hidHandle[g] # hidHandle[h]

\* C9 witness: with a handle open, another constructor call found no device
\* and raised.
C9_Witness ==
  /\ lastCall.op = "New" /\ lastCall.opened = 0 /\ lastCall.argsOK
  /\ DeviceNotFound \in lastCall.raised
  /\ \E h \in Handles : objState[h] = "live" /\ hidHandle[h] # 0

\* C10: a read whose hid_read returned 0 invokes the callback with no error
\* and an empty Buffer.
C10_EmptyReadIsNoError ==
  \A r \in ReadIds :
     (reads[r].st = "calling" /\ reads[r].len = 0)
       => reads[r].argv = <<Undefined, Buffer(<<>>)>>

\* C10 witness: a callback is running for a read that returned 0 bytes.
C10_Witness ==
  \E r \in ReadIds :
     reads[r].st = "calling" /\ reads[r].len = 0 /\ reads[r].calls = 1

\* C11: a write of byte values on an open handle makes one hid_write call
\* with exactly the caller's bytes, raises WriteFailed exactly when hid_write
\* returned a negative result, and otherwise returns the number of bytes
\* hid_write reported.
C11_WriteHandsBytesReturnsCount ==
  (/\ lastCall.op = "write" /\ lastCall.argsOK /\ ~lastCall.wasClosed
   /\ \A i \in 1..Len(lastCall.args) : lastCall.args[i] \in 0..(UCharRange - 1))
    => /\ Len(lastCall.native) = 1
       /\ lastCall.native[1].fn = "hid_write"
       /\ lastCall.native[1].data = lastCall.args
       /\ (WriteFailed \in lastCall.raised) <=> (lastCall.native[1].ret < 0)
       /\ lastCall.native[1].ret >= 0
            => lastCall.ret = Integer(lastCall.native[1].ret)

\* C12: every step of the loaded program is taken with hidapi initialized
\* by the one hid_init call and not yet finalized; hid_exit is called at
\* most once, by the step that ends the process, and has been called once
\* when the process has exited; a failed hid_init or hid_exit leaves the
\* process aborted.
C12_InitBeforeUseExitOnce ==
  [][/\ process # "unloaded"
          => (library = "ready" /\ hidInit = 1 /\ hidExit = 0)
     /\ hidExit' # hidExit
          => (hidExit' = 1 /\ process' \in {"exited", "aborted"})
     /\ process' = "exited" => (hidExit' = 1 /\ library' = "finalized")
     /\ library' = "failed" => process' = "aborted"
    ]_vars

\* C12 witness: the process was loaded and has exited through the exit
\* hook, with one hid_init and one hid_exit behind it.
C12_Witness ==
  /\ process = "exited" /\ library = "finalized"
  /\ hidInit = 1 /\ hidExit = 1

\* C13: over the loopback transport, getFeatureReport(reportId, L) on an open
\* handle whose device holds the report JavaScript last sent as L >= 1 byte
\* values, the first of them reportId, raises nothing and returns exactly
\* those bytes.
C13_FeatureReportRoundTrip ==
  (lastCall.op = "getFeatureReport" /\ lastCall.argsOK /\ ~lastCall.wasClosed)
    => LET call == lastCall.native[1]
           sent == featureReport[call.dev].args
       IN (/\ sent # <<>>
           /\ \A i \in 1..Len(sent) : sent[i] \in 0..(UCharRange - 1)
           /\ call.data[1] = sent[1]
           /\ Len(call.data) = Len(sent))
            => (lastCall.raised = {} /\ lastCall.ret = JSArray(sent))

\* C13 witness: a report of two different bytes came back as it was sent.
C13_Witness ==
  /\ lastCall.op = "getFeatureReport" /\ lastCall.raised = {}
  /\ lastCall.ret = JSArray(<<170, 187>>)
  /\ \E h \in Handles : featureReport[h].args = <<170, 187>>

\* C14: a devices call returns one object per record hid_enumerate listed,
\* in that order and with that record's values, and each of them is also in
\* what devices() with no argument returns for the same attached devices.
C14_EnumerationSuperset ==
  lastCall.op = "devices" =>
    LET records == lastCall.native[1].ret
        elems   == lastCall.ret.elems
        all     == DevicesResult(0, 0, 0, lastCall.attached).ret.elems
    IN /\ Len(elems) = Len(records)
       /\ \A i \in 1..Len(elems) :
            /\ elems[i]["vendorId"] = Integer(records[i].vendor_id)
            /\ elems[i]["productId"] = Integer(records[i].product_id)
            /\ ("path" \in DOMAIN elems[i]) <=> (records[i].path # {})
            /\ records[i].path # {}
                 => elems[i]["path"] = String(Deref(records[i].path))
            /\ ("serialNumber" \in DOMAIN elems[i])
                 <=> (records[i].serial_number # {})
       /\ \A i \in 1..Len(elems) : \E j \in 1..Len(all) : all[j] = elems[i]

\* C14 witness: with two different devices attached, a call with a vendor
\* and a product id returned the second one only.
C14_Witness ==
  /\ lastCall.op = "devices" /\ lastCall.raised = {}
  /\ Len(lastCall.attached) = 2
  /\ lastCall.attached[1] # lastCall.attached[2]
  /\ lastCall.native[1].data # <<0, 0>>
  /\ lastCall.native[1].ret = <<lastCall.attached[2]>>
  /\ Len(lastCall.ret.elems) = 1

\* C15: while the callback of a read runs, the reference of the read is
\* still held and its request is not discarded; the reference is released
\* once, before the request is discarded.
C15_CallbackThenUnrefThenDiscard ==
  \A r \in ReadIds :
     /\ reads[r].st = "calling"
          => (reads[r].unrefs = 0 /\ ~reads[r].deleted)
     /\ reads[r].deleted => reads[r].unrefs = 1

\* The reads on a handle whose completion has not begun: submitted, and
\* HID::recvAsyncDone has not yet released the reference and invoked the
\* callback.
Outstanding(h) ==
  {r \in ReadIds : reads[r].hid = h
                   /\ reads[r].st \in {"queued", "running", "returned"}}

C17_RaisingReadLeavesHandleUnchanged ==
  [][(\/ \E h \in Handles : refs'[h] > refs[h]
      \/ \E r \in ReadIds : reads[r].st = "none" /\ reads'[r].st = "queued")
       => lastCall'.raised = {}
    ]_vars

\* C18: a constructor call that raised opened no device.
C18_RaisingConstructorOpensNothing ==
  (lastCall.op = "New" /\ lastCall.raised # {}) => lastCall.opened = 0

\* C19: write, getFeatureReport and sendFeatureReport free the buffer they
\* allocated for the native call once: as many frees as buffers.
C19_BufferFreedOnce ==
  lastCall.op \in {"write", "getFeatureReport", "sendFeatureReport"}
    => lastCall.frees = Len(lastCall.native)
====
